---- MODULE Spec2Model ----
(***************************************************************************)
(* Model of the OpenThread neighbor table (NeighborTable) and the Thread   *)
(* network interface (ThreadNetif): address resolution over the parent     *)
(* slots, child table and router table, neighbor enumeration with a        *)
(* sign-encoded cursor, interface Up/Down, the TMF filter and the route    *)
(* lookup self-loop guard.                                                 *)
(*                                                                         *)
(* An IPv6 address is a tuple of eight 16-bit words, an interface          *)
(* identifier and an extended address a tuple of four 16-bit words.        *)
(***************************************************************************)
EXTENDS Integers, Sequences, FiniteSets, TLC

VARIABLES
    mIsUp,            \* ThreadNetif::mIsUp
    sub,              \* running state of the subsystems ThreadNetif drives
    cfg,              \* build configuration (the #if switches of Up/Down)
    steps,            \* subsystem calls made by the latest Up/Down call, in order
    signals,          \* number of OT_CHANGED_THREAD_NETIF_STATE events signalled
    nCalls,           \* number of Up/Down calls made
    ftd,              \* TRUE on an OPENTHREAD_FTD build, FALSE on OPENTHREAD_MTD
    role,             \* Mle device role
    rloc16,           \* this device's own locator, Mle::GetRloc16
    parent,           \* Mle::GetParent()
    parentCandidate,  \* Mle::GetParentCandidate()
    children,         \* ChildTable: index -> Child
    routers,          \* RouterTable: router id -> Router (or NoRouter)
    routes,           \* NetworkData::Leader routes: destination -> next hop (or NoHop)
    iter,             \* the caller-held otNeighborInfoIterator
    info,             \* the caller-held Neighbor::Info out-parameter
    yielded,          \* entries returned since the cursor was last initialised
    mutated,          \* the tables changed since the cursor was last initialised
    op,               \* the latest call and its arguments
    res               \* the value the latest call returned

vars == <<mIsUp, sub, cfg, steps, signals, nCalls, ftd, role, rloc16, parent,
          parentCandidate, children, routers, routes, iter, info, yielded,
          mutated, op, res>>

netifVars == <<mIsUp, sub, cfg, steps, signals, nCalls>>
tableVars == <<ftd, role, rloc16, parent, parentCandidate, children, routers, routes>>
iterVars  == <<iter, info, yielded, mutated>>

(***************************************************************************)
(* Bounds of the model.                                                    *)
(***************************************************************************)
MaxChildren == 2      \* child table capacity (mMaxChildrenAllowed)
kMaxRouterId == 1     \* stands for Mle::kMaxRouterId; router ids are 0..kMaxRouterId
MaxCalls == 4         \* Up/Down calls explored
MaxContent == 2       \* distinct message contents offered to the TMF filter

(***************************************************************************)
(* Error codes.                                                            *)
(***************************************************************************)
OT_ERROR_NONE      == "OT_ERROR_NONE"
OT_ERROR_NO_ROUTE  == "OT_ERROR_NO_ROUTE"
OT_ERROR_NOT_FOUND == "OT_ERROR_NOT_FOUND"
OT_ERROR_NOT_TMF   == "OT_ERROR_NOT_TMF"

NoOp == [kind |-> "none"]

(***************************************************************************)
(* IPv6 address classification, on the words of the address.               *)
(***************************************************************************)
\* The mesh-local prefix of the partition: fd00:0db8:0000:0000::/64.
MeshLocalPrefix == <<64768, 3512, 0, 0>>

\* The address made of a 64-bit prefix and an interface identifier.
MakeIp6(pfx, iid) == pfx \o iid

\* Ip6::Address::GetIid: the low 64 bits.
GetIid(a) == <<a[5], a[6], a[7], a[8]>>

\* Ip6::Address::IsLinkLocal: fe80::/10.
IsLinkLocal(a) == (a[1] \div 64) * 64 = 65152

\* Ip6::Address::IsMulticast: ff00::/8.
IsMulticast(a) == a[1] \div 256 = 255

\* Ip6::Address::GetScope of a multicast address: the low four bits of byte 1.
MulticastScope(a) == a[1] % 16

\* Ip6::Address::IsLinkLocalMulticast.
IsLinkLocalMulticast(a) == IsMulticast(a) /\ MulticastScope(a) = 2

\* Ip6::Address::IsRealmLocalMulticast.
IsRealmLocalMulticast(a) == IsMulticast(a) /\ MulticastScope(a) = 3

\* Mle::IsMeshLocalAddress: the first 64 bits are the mesh-local prefix.
IsMeshLocalAddress(a) == <<a[1], a[2], a[3], a[4]>> = MeshLocalPrefix

(***************************************************************************)
(* ThreadNetif::IsTmfMessage and ThreadNetif::TmfFilter.                   *)
(* A message info is [sock |-> destination, peer |-> source].              *)
(***************************************************************************)
\* IsTmfMessage with rule 2 requiring a link-local unicast destination.
IsTmfMessage_UnicastOnly(aMessageInfo) ==
    \/ /\ \/ IsMeshLocalAddress(aMessageInfo.sock)
          \/ IsLinkLocalMulticast(aMessageInfo.sock)
          \/ IsRealmLocalMulticast(aMessageInfo.sock)
       /\ IsMeshLocalAddress(aMessageInfo.peer)
    \/ /\ IsLinkLocal(aMessageInfo.sock)
       /\ IsLinkLocal(aMessageInfo.peer)

\* IsTmfMessage with rule 1 not looking at the source.
IsTmfMessage_AnySource(aMessageInfo) ==
    \/ \/ IsMeshLocalAddress(aMessageInfo.sock)
       \/ IsLinkLocalMulticast(aMessageInfo.sock)
       \/ IsRealmLocalMulticast(aMessageInfo.sock)
    \/ /\ \/ IsLinkLocal(aMessageInfo.sock)
          \/ IsLinkLocalMulticast(aMessageInfo.sock)
       /\ IsLinkLocal(aMessageInfo.peer)

IsTmfMessage(aMessageInfo) ==
    \/ /\ \/ IsMeshLocalAddress(aMessageInfo.sock)
          \/ IsLinkLocalMulticast(aMessageInfo.sock)
          \/ IsRealmLocalMulticast(aMessageInfo.sock)
       /\ IsMeshLocalAddress(aMessageInfo.peer)
    \/ /\ \/ IsLinkLocal(aMessageInfo.sock)
          \/ IsLinkLocalMulticast(aMessageInfo.sock)
       /\ IsLinkLocal(aMessageInfo.peer)

TmfFilter(aMessage, aMessageInfo) ==
    IF IsTmfMessage(aMessageInfo) THEN OT_ERROR_NONE ELSE OT_ERROR_NOT_TMF

(***************************************************************************)
(* ThreadNetif::Up and ThreadNetif::Down.                                  *)
(*                                                                         *)
(* The body of a call runs on a local record                               *)
(*   [up, sub, steps, signals]                                             *)
(* one operator per statement; every statement that calls a subsystem      *)
(* appends <<name, value of mIsUp at that moment>> to steps.               *)
(***************************************************************************)
Configs == [channelMonitor : BOOLEAN, dnsClient : BOOLEAN,
            sntpClient : BOOLEAN, dtls : BOOLEAN]

\* The subsystems right after construction: nothing started, no
\* subscription, the MAC enabled.
SubInit == [mac |-> TRUE, channelMonitor |-> FALSE, meshForwarder |-> FALSE,
            allNodes |-> FALSE, allRouters |-> FALSE, mle |-> FALSE,
            coap |-> FALSE, coapSecure |-> FALSE, dns |-> FALSE,
            sntp |-> FALSE, extUnicast |-> FALSE, extMulticast |-> FALSE]

Call(s, name) == [s EXCEPT !.steps = Append(@, <<name, s.up>>)]

MacSetEnabled(s, v)       == [Call(s, "Mac.SetEnabled") EXCEPT !.sub.mac = v]
ChannelMonitorStart(s)    == [Call(s, "ChannelMonitor.Start") EXCEPT !.sub.channelMonitor = TRUE]
ChannelMonitorStop(s)     == [Call(s, "ChannelMonitor.Stop") EXCEPT !.sub.channelMonitor = FALSE]
MeshForwarderStart(s)     == [Call(s, "MeshForwarder.Start") EXCEPT !.sub.meshForwarder = TRUE]
MeshForwarderStop(s)      == [Call(s, "MeshForwarder.Stop") EXCEPT !.sub.meshForwarder = FALSE]
SetIsUp(s, v)             == [s EXCEPT !.up = v, !.steps = Append(@, <<"mIsUp", v>>)]
SubscribeAllNodesMulticast(s)   == [Call(s, "SubscribeAllNodesMulticast") EXCEPT !.sub.allNodes = TRUE]
UnsubscribeAllNodesMulticast(s) == [Call(s, "UnsubscribeAllNodesMulticast") EXCEPT !.sub.allNodes = FALSE]
UnsubscribeAllRoutersMulticast(s) ==
    [Call(s, "UnsubscribeAllRoutersMulticast") EXCEPT !.sub.allRouters = FALSE]
RemoveAllExternalUnicastAddresses(s) ==
    [Call(s, "RemoveAllExternalUnicastAddresses") EXCEPT !.sub.extUnicast = FALSE]
UnsubscribeAllExternalMulticastAddresses(s) ==
    [Call(s, "UnsubscribeAllExternalMulticastAddresses") EXCEPT !.sub.extMulticast = FALSE]
MleEnable(s)              == [Call(s, "MleRouter.Enable") EXCEPT !.sub.mle = TRUE]
MleDisable(s)             == [Call(s, "MleRouter.Disable") EXCEPT !.sub.mle = FALSE]
CoapStart(s)              == [Call(s, "Coap.Start") EXCEPT !.sub.coap = TRUE]
CoapStop(s)               == [Call(s, "Coap.Stop") EXCEPT !.sub.coap = FALSE]
CoapSecureStop(s)         == [Call(s, "CoapSecure.Stop") EXCEPT !.sub.coapSecure = FALSE]
DnsClientStart(s)         == [Call(s, "Dns.Client.Start") EXCEPT !.sub.dns = TRUE]
DnsClientStop(s)          == [Call(s, "Dns.Client.Stop") EXCEPT !.sub.dns = FALSE]
SntpClientStart(s)        == [Call(s, "Sntp.Client.Start") EXCEPT !.sub.sntp = TRUE]
SntpClientStop(s)         == [Call(s, "Sntp.Client.Stop") EXCEPT !.sub.sntp = FALSE]
NotifierSignal(s)         == [Call(s, "Notifier.Signal") EXCEPT !.signals = @ + 1]

When(c, s1, s0) == IF c THEN s1 ELSE s0

\* The record a call starts on: the current state and an empty step log.
Entry == [up |-> mIsUp, sub |-> sub, steps |-> <<>>, signals |-> signals]

\* UpBody that marks the interface Up only after the subsystems are started.
UpBody_MarkUpLast(s) ==
    IF s.up THEN s
    ELSE
        LET s1 == MacSetEnabled(s, TRUE)
            s2 == When(cfg.channelMonitor, ChannelMonitorStart(s1), s1)
            s3 == MeshForwarderStart(s2)
            s5 == SubscribeAllNodesMulticast(s3)
            s6 == MleEnable(s5)
            s7 == CoapStart(s6)
            s8 == When(cfg.dnsClient, DnsClientStart(s7), s7)
            s9 == When(cfg.sntpClient, SntpClientStart(s8), s8)
            s10 == SetIsUp(s9, TRUE)
        IN  NotifierSignal(s10)

\* UpBody that does not start the management transport.
UpBody_NoCoapStart(s) ==
    IF s.up THEN s
    ELSE
        LET s1 == MacSetEnabled(s, TRUE)
            s2 == When(cfg.channelMonitor, ChannelMonitorStart(s1), s1)
            s3 == MeshForwarderStart(s2)
            s4 == SetIsUp(s3, TRUE)
            s5 == SubscribeAllNodesMulticast(s4)
            s6 == MleEnable(s5)
            s8 == When(cfg.dnsClient, DnsClientStart(s6), s6)
            s9 == When(cfg.sntpClient, SntpClientStart(s8), s8)
        IN  NotifierSignal(s9)

\* UpBody without the VerifyOrExit(!mIsUp) guard.
UpBody_NoGuard(s) ==
    LET s1 == MacSetEnabled(s, TRUE)
        s2 == When(cfg.channelMonitor, ChannelMonitorStart(s1), s1)
        s3 == MeshForwarderStart(s2)
        s4 == SetIsUp(s3, TRUE)
        s5 == SubscribeAllNodesMulticast(s4)
        s6 == MleEnable(s5)
        s7 == CoapStart(s6)
        s8 == When(cfg.dnsClient, DnsClientStart(s7), s7)
        s9 == When(cfg.sntpClient, SntpClientStart(s8), s8)
    IN  NotifierSignal(s9)

\* The body of ThreadNetif::Up, from entry record s.
UpBody(s) ==
    IF s.up THEN s                          \* VerifyOrExit(!mIsUp)
    ELSE
        LET s1 == MacSetEnabled(s, TRUE)
            s2 == When(cfg.channelMonitor, ChannelMonitorStart(s1), s1)
            s3 == MeshForwarderStart(s2)
            s4 == SetIsUp(s3, TRUE)
            s5 == SubscribeAllNodesMulticast(s4)
            s6 == MleEnable(s5)
            s7 == CoapStart(s6)
            s8 == When(cfg.dnsClient, DnsClientStart(s7), s7)
            s9 == When(cfg.sntpClient, SntpClientStart(s8), s8)
        IN  NotifierSignal(s9)

\* DownBody that does not signal the notifier.
DownBody_NoSignal(s) ==
    IF ~s.up THEN s
    ELSE
        LET s1  == When(cfg.dnsClient, DnsClientStop(s), s)
            s2  == When(cfg.sntpClient, SntpClientStop(s1), s1)
            s3  == When(cfg.dtls, CoapSecureStop(s2), s2)
            s4  == CoapStop(s3)
            s5  == MleDisable(s4)
            s6  == RemoveAllExternalUnicastAddresses(s5)
            s7  == UnsubscribeAllExternalMulticastAddresses(s6)
            s8  == UnsubscribeAllRoutersMulticast(s7)
            s9  == UnsubscribeAllNodesMulticast(s8)
            s10 == SetIsUp(s9, FALSE)
            s11 == MeshForwarderStop(s10)
        IN  When(cfg.channelMonitor, ChannelMonitorStop(s11), s11)

\* DownBody that marks the interface Down before the cleanup.
DownBody_MarkDownFirst(s) ==
    IF ~s.up THEN s
    ELSE
        LET s0  == SetIsUp(s, FALSE)
            s1  == When(cfg.dnsClient, DnsClientStop(s0), s0)
            s2  == When(cfg.sntpClient, SntpClientStop(s1), s1)
            s3  == When(cfg.dtls, CoapSecureStop(s2), s2)
            s4  == CoapStop(s3)
            s5  == MleDisable(s4)
            s6  == RemoveAllExternalUnicastAddresses(s5)
            s7  == UnsubscribeAllExternalMulticastAddresses(s6)
            s8  == UnsubscribeAllRoutersMulticast(s7)
            s9  == UnsubscribeAllNodesMulticast(s8)
            s11 == MeshForwarderStop(s9)
            s12 == When(cfg.channelMonitor, ChannelMonitorStop(s11), s11)
        IN  NotifierSignal(s12)

\* The body of ThreadNetif::Down, from entry record s.
DownBody(s) ==
    IF ~s.up THEN s                         \* VerifyOrExit(mIsUp)
    ELSE
        LET s1  == When(cfg.dnsClient, DnsClientStop(s), s)
            s2  == When(cfg.sntpClient, SntpClientStop(s1), s1)
            s3  == When(cfg.dtls, CoapSecureStop(s2), s2)
            s4  == CoapStop(s3)
            s5  == MleDisable(s4)
            s6  == RemoveAllExternalUnicastAddresses(s5)
            s7  == UnsubscribeAllExternalMulticastAddresses(s6)
            s8  == UnsubscribeAllRoutersMulticast(s7)
            s9  == UnsubscribeAllNodesMulticast(s8)
            s10 == SetIsUp(s9, FALSE)
            s11 == MeshForwarderStop(s10)
            s12 == When(cfg.channelMonitor, ChannelMonitorStop(s11), s11)
        IN  NotifierSignal(s12)

\* Store the record a body ended on.
Commit(s, name) ==
    /\ mIsUp' = s.up
    /\ sub' = s.sub
    /\ steps' = s.steps
    /\ signals' = s.signals
    /\ nCalls' = nCalls + 1
    /\ op' = [kind |-> name, wasUp |-> mIsUp]
    /\ res' = "void"
    /\ UNCHANGED <<cfg, tableVars, iterVars>>

Up == nCalls < MaxCalls /\ Commit(UpBody(Entry), "Up")

Down == nCalls < MaxCalls /\ Commit(DownBody(Entry), "Down")

(***************************************************************************)
(* What the rest of the stack does to the subsystems between the calls.    *)
(***************************************************************************)
EnvStep(newSub) ==
    /\ newSub # sub
    /\ sub' = newSub
    /\ op' = [kind |-> "env"]
    /\ res' = "void"
    /\ UNCHANGED <<mIsUp, cfg, steps, signals, nCalls, tableVars, iterVars>>

\* Netif::AddExternalUnicastAddress, by the application.
AddExternalUnicastAddress == EnvStep([sub EXCEPT !.extUnicast = TRUE])

\* Netif::SubscribeExternalMulticast, by the application.
SubscribeExternalMulticast == EnvStep([sub EXCEPT !.extMulticast = TRUE])

\* Netif::SubscribeAllRoutersMulticast, by MLE when it takes a router role.
SubscribeAllRoutersMulticast == sub.mle /\ EnvStep([sub EXCEPT !.allRouters = TRUE])

\* Coap::CoapSecure::Start, by the border agent, commissioner or joiner.
CoapSecureStart == cfg.dtls /\ mIsUp /\ EnvStep([sub EXCEPT !.coapSecure = TRUE])

\* Mac::SetEnabled(false), by otLinkSetEnabled while the interface is down.
MacDisable == ~mIsUp /\ EnvStep([sub EXCEPT !.mac = FALSE])

(***************************************************************************)
(* Neighbors, link-layer addresses and address matchers.                   *)
(*                                                                         *)
(* A neighbor is [ext, rloc16, state, ip6]: its extended address, its      *)
(* short address, its lifecycle state and (for a child) the IPv6 addresses *)
(* it registered.  A stored neighbor is named by a reference: <<"parent">>,*)
(* <<"parentCandidate">>, <<"child", index>> or <<"router", id>>.          *)
(***************************************************************************)
kShortAddrBroadcast == 65535     \* Mac::kShortAddrBroadcast, 0xffff
kShortAddrInvalid   == 65534     \* Mac::kShortAddrInvalid, 0xfffe

NeighborStates == {"Invalid", "Restoring", "ParentRequest", "ParentResponse",
                   "ChildIdRequest", "LinkRequest", "ChildUpdateRequest", "Valid"}

nullptr == <<"nullptr">>
NoRouter == [state |-> "Unallocated"]

ChildIndexes == 0 .. (MaxChildren - 1)
RouterIds == 0 .. kMaxRouterId

\* Neighbor::IsStateValid.
IsStateValid(n) == n.state = "Valid"

\* Neighbor::IsStateValidOrRestoring.
IsStateValidOrRestoring(n) == n.state \in {"Valid", "Restoring"}

\* Neighbor::MatchesFilter.
MatchesFilter(n, filter) ==
    CASE filter = "kInStateValid" -> IsStateValid(n)
      [] filter = "kInStateValidOrRestoring" -> IsStateValidOrRestoring(n)
      [] filter = "kInStateAny" -> TRUE

\* Mac::Address values.
MacNone == [type |-> "none"]
MacShort(s) == [type |-> "short", short |-> s]
MacExt(e) == [type |-> "ext", ext |-> e]

\* Neighbor::AddressMatcher, from a short, an extended or a generic MAC address.
ShortMatcher(aShortAddress, filter) == [kind |-> "short", short |-> aShortAddress, filter |-> filter]
ExtMatcher(aExtAddress, filter) == [kind |-> "ext", ext |-> aExtAddress, filter |-> filter]
MacMatcher(aMacAddress, filter) ==
    IF aMacAddress.type = "short" THEN ShortMatcher(aMacAddress.short, filter)
    ELSE ExtMatcher(aMacAddress.ext, filter)

\* The address comparison of a matcher, whatever the neighbor's state.
AddressMatches(n, m) ==
    IF m.kind = "short" THEN n.rloc16 = m.short ELSE n.ext = m.ext

\* Neighbor::Matches.
Matches(n, m) ==
    /\ n # NoRouter
    /\ MatchesFilter(n, m.filter)
    /\ AddressMatches(n, m)

\* The stored neighbor a reference names.
Deref(ref) ==
    CASE ref[1] = "parent" -> parent
      [] ref[1] = "parentCandidate" -> parentCandidate
      [] ref[1] = "child" -> children[ref[2]]
      [] ref[1] = "router" -> routers[ref[2]]

MinOf(S) == CHOOSE x \in S : \A y \in S : x <= y

\* ChildTable::FindChild: the first child, by index, the matcher matches.
FindChild(aMatcher) ==
    LET hits == {i \in ChildIndexes : Matches(children[i], aMatcher)}
    IN  IF hits = {} THEN nullptr ELSE <<"child", MinOf(hits)>>

\* RouterTable::FindRouter: the first allocated router, by id, the matcher matches.
FindRouter(aMatcher) ==
    LET hits == {r \in RouterIds : Matches(routers[r], aMatcher)}
    IN  IF hits = {} THEN nullptr ELSE <<"router", MinOf(hits)>>

\* ChildTable::GetChildAtIndex: nullptr past the capacity of the table.
GetChildAtIndex(aIndex) ==
    IF aIndex \in ChildIndexes THEN <<"child", aIndex>> ELSE nullptr

\* RouterTable::GetRouter: the router allocated under the id, or nullptr.
GetRouter(aRouterId) ==
    IF aRouterId \in RouterIds /\ routers[aRouterId] # NoRouter
    THEN <<"router", aRouterId>> ELSE nullptr

\* RouterTable::GetNeighbor: the valid router with the MAC address.
RouterTableGetNeighbor(aMacAddress) ==
    IF aMacAddress.type = "none" THEN nullptr
    ELSE FindRouter(MacMatcher(aMacAddress, "kInStateValid"))

\* Mle::IsRouterOrLeader and Mle::IsChild.
IsRouterOrLeader == role \in {"Router", "Leader"}
IsChild == role = "Child"

(***************************************************************************)
(* Interface identifiers.                                                  *)
(***************************************************************************)
\* Mac::ExtAddress::ToggleLocal: flip the universal/local bit (0x02 of byte 0).
ToggleLocal(e) ==
    <<IF (e[1] \div 512) % 2 = 0 THEN e[1] + 512 ELSE e[1] - 512, e[2], e[3], e[4]>>

\* Ip6::InterfaceIdentifier::ConvertToMacAddress: the extended address of the IID.
ConvertToMacAddress(iid) == MacExt(ToggleLocal(iid))

\* Ip6::InterfaceIdentifier::IsLocator: 0000:00ff:fe00:xxxx.
IsLocator(iid) == iid[1] = 0 /\ iid[2] = 255 /\ iid[3] = 65024

\* Ip6::InterfaceIdentifier::GetLocator: the last 16 bits.
GetLocator(iid) == iid[4]

\* Mle::IsRoutingLocator.
IsRoutingLocator(a) == IsMeshLocalAddress(a) /\ IsLocator(GetIid(a))

\* Child::HasIp6Address.
HasIp6Address(child, a) == a \in child.ip6

(***************************************************************************)
(* NeighborTable lookups.                                                  *)
(***************************************************************************)
\* NeighborTable::FindParent(const Neighbor::AddressMatcher &).
FindParent(aMatcher) ==
    IF Matches(parent, aMatcher) THEN <<"parent">>
    ELSE IF Matches(parentCandidate, aMatcher) THEN <<"parentCandidate">>
    ELSE nullptr

\* FindChildOrRouter that stops at the child table.
FindChildOrRouter_ChildOnly(aMatcher) == FindChild(aMatcher)

\* NeighborTable::FindChildOrRouter.
FindChildOrRouter(aMatcher) ==
    LET neighbor == FindChild(aMatcher)
    IN  IF neighbor = nullptr THEN FindRouter(aMatcher) ELSE neighbor

\* FindNeighbor(matcher) that searches the parent slots first.
FindNeighbor_ParentFirst(aMatcher) ==
    LET neighbor == FindParent(aMatcher)
    IN  IF neighbor = nullptr /\ ftd /\ IsRouterOrLeader
        THEN FindChildOrRouter(aMatcher) ELSE neighbor

\* NeighborTable::FindNeighbor(const Neighbor::AddressMatcher &).
FindNeighbor(aMatcher) ==
    LET neighbor == IF ftd /\ IsRouterOrLeader THEN FindChildOrRouter(aMatcher)
                    ELSE nullptr
    IN  IF neighbor = nullptr THEN FindParent(aMatcher) ELSE neighbor

\* FindNeighbor(Mac::ShortAddress) without the check of the two sentinels.
FindNeighborShort_NoSentinelCheck(aShortAddress) ==
    FindNeighbor(ShortMatcher(aShortAddress, "kInStateValidOrRestoring"))

\* NeighborTable::FindNeighbor(Mac::ShortAddress).
FindNeighborShort(aShortAddress) ==
    IF aShortAddress # kShortAddrBroadcast /\ aShortAddress # kShortAddrInvalid
    THEN FindNeighbor(ShortMatcher(aShortAddress, "kInStateValidOrRestoring"))
    ELSE nullptr

\* FindNeighbor(const Mac::ExtAddress &) asking for a neighbor in any state.
FindNeighborExt_AnyState(aExtAddress) ==
    FindNeighbor(ExtMatcher(aExtAddress, "kInStateAny"))

\* NeighborTable::FindNeighbor(const Mac::ExtAddress &).
FindNeighborExt(aExtAddress) ==
    FindNeighbor(ExtMatcher(aExtAddress, "kInStateValidOrRestoring"))

\* FindNeighbor(const Mac::Address &) that searches the parent slots only.
FindNeighborMac_ParentOnly(aMacAddress) ==
    FindParent(MacMatcher(aMacAddress, "kInStateValidOrRestoring"))

\* NeighborTable::FindNeighbor(const Mac::Address &).
FindNeighborMac(aMacAddress) ==
    FindNeighbor(MacMatcher(aMacAddress, "kInStateValidOrRestoring"))

\* DerivedMacAddress without the routing-locator branch.
DerivedMacAddress_NoLocator(aIp6Address) ==
    IF IsLinkLocal(aIp6Address)
    THEN ConvertToMacAddress(GetIid(aIp6Address)) ELSE MacNone

\* The MAC address NeighborTable::FindNeighbor(const Ip6::Address &) derives.
DerivedMacAddress(aIp6Address) ==
    LET m1 == IF IsLinkLocal(aIp6Address)
              THEN ConvertToMacAddress(GetIid(aIp6Address)) ELSE MacNone
    IN  IF IsRoutingLocator(aIp6Address)
        THEN MacShort(GetLocator(GetIid(aIp6Address))) ELSE m1

\* The scan of the registered addresses of the valid-or-restoring children.
ScanChildren(aIp6Address) ==
    LET hits == {i \in ChildIndexes :
                    /\ IsStateValidOrRestoring(children[i])
                    /\ HasIp6Address(children[i], aIp6Address)}
    IN  IF hits = {} THEN nullptr ELSE <<"child", MinOf(hits)>>

\* FindNeighbor(const Ip6::Address &) that scans the children's registered
\* addresses when the search by the derived MAC address finds nothing.
FindNeighborIp6_FallThrough(aIp6Address) ==
    LET macAddresss == DerivedMacAddress(aIp6Address)
        neighbor == IF macAddresss # MacNone
                    THEN FindChildOrRouter(MacMatcher(macAddresss, "kInStateValidOrRestoring"))
                    ELSE nullptr
    IN  IF neighbor # nullptr THEN neighbor ELSE ScanChildren(aIp6Address)

\* NeighborTable::FindNeighbor(const Ip6::Address &).
FindNeighborIp6(aIp6Address) ==
    LET macAddresss == DerivedMacAddress(aIp6Address)
    IN  IF macAddresss # MacNone
        THEN FindChildOrRouter(MacMatcher(macAddresss, "kInStateValidOrRestoring"))
        ELSE ScanChildren(aIp6Address)

\* NeighborTable::FindRxOnlyNeighborRouter.
FindRxOnlyNeighborRouter(aMacAddress) ==
    IF IsChild THEN RouterTableGetNeighbor(aMacAddress) ELSE nullptr

(***************************************************************************)
(* NeighborTable::GetNextNeighborInfo.                                     *)
(***************************************************************************)
OT_NEIGHBOR_INFO_ITERATOR_INIT == 0

NoInfo == [mIsChild |-> FALSE, mRloc16 |-> kShortAddrInvalid, mExtAddress |-> <<0, 0, 0, 0>>]

\* Neighbor::Info::SetFrom followed by the assignment of mIsChild.
InfoFrom(ref, isChild) ==
    [mIsChild |-> isChild, mRloc16 |-> Deref(ref).rloc16, mExtAddress |-> Deref(ref).ext]

\* ChildLoop taking a restoring child for a valid one.
RECURSIVE ChildLoop_ValidOrRestoring(_)
ChildLoop_ValidOrRestoring(index) ==
    LET child == GetChildAtIndex(index)
    IN  IF child = nullptr THEN -1
        ELSE IF IsStateValidOrRestoring(Deref(child)) THEN index
        ELSE ChildLoop_ValidOrRestoring(index + 1)

\* The child loop: the index of the first valid child at or after index,
\* or -1 when GetChildAtIndex runs off the table first.
RECURSIVE ChildLoop(_)
ChildLoop(index) ==
    LET child == GetChildAtIndex(index)
    IN  IF child = nullptr THEN -1
        ELSE IF IsStateValid(Deref(child)) THEN index
        ELSE ChildLoop(index + 1)

\* The router loop: the id of the first valid router at or after index, or
\* the value the loop variable ends on (above kMaxRouterId) when there is none.
RECURSIVE RouterLoop(_)
RouterLoop(index) ==
    IF index > kMaxRouterId THEN index
    ELSE LET router == GetRouter(index)
         IN  IF router # nullptr /\ IsStateValid(Deref(router)) THEN index
             ELSE RouterLoop(index + 1)

\* RouterPhase that leaves the cursor as it is when no router is found.
RouterPhase_NoTerminal(aIterator, aNeighInfo) ==
    LET index == RouterLoop(-aIterator)
    IN  IF index <= kMaxRouterId
        THEN [error |-> OT_ERROR_NONE, iter |-> -(index + 1),
              info |-> InfoFrom(<<"router", index>>, FALSE), hit |-> <<"router", index>>]
        ELSE [error |-> OT_ERROR_NOT_FOUND, iter |-> aIterator,
              info |-> aNeighInfo, hit |-> nullptr]

\* RouterPhase that clears the out-info when no router is found.
RouterPhase_ClearsInfo(aIterator, aNeighInfo) ==
    LET index == RouterLoop(-aIterator)
    IN  IF index <= kMaxRouterId
        THEN [error |-> OT_ERROR_NONE, iter |-> -(index + 1),
              info |-> InfoFrom(<<"router", index>>, FALSE), hit |-> <<"router", index>>]
        ELSE [error |-> OT_ERROR_NOT_FOUND, iter |-> -index,
              info |-> NoInfo, hit |-> nullptr]

\* RouterPhase that stores the id of the router it found without stepping
\* past it.
RouterPhase_NoAdvance(aIterator, aNeighInfo) ==
    LET index == RouterLoop(-aIterator)
    IN  IF index <= kMaxRouterId
        THEN [error |-> OT_ERROR_NONE, iter |-> -index,
              info |-> InfoFrom(<<"router", index>>, FALSE), hit |-> <<"router", index>>]
        ELSE [error |-> OT_ERROR_NOT_FOUND, iter |-> -index,
              info |-> aNeighInfo, hit |-> nullptr]

\* The router phase of the FTD GetNextNeighborInfo, on cursor value aIterator <= 0.
RouterPhase(aIterator, aNeighInfo) ==
    LET index == RouterLoop(-aIterator)
    IN  IF index <= kMaxRouterId
        THEN [error |-> OT_ERROR_NONE, iter |-> -(index + 1),
              info |-> InfoFrom(<<"router", index>>, FALSE), hit |-> <<"router", index>>]
        ELSE [error |-> OT_ERROR_NOT_FOUND, iter |-> -index,
              info |-> aNeighInfo, hit |-> nullptr]

\* NeighborTable::GetNextNeighborInfo, OPENTHREAD_FTD.
GetNextNeighborInfoFtd(aIterator, aNeighInfo) ==
    IF aIterator >= 0
    THEN LET index == ChildLoop(aIterator)
         IN  IF index >= 0
             THEN [error |-> OT_ERROR_NONE, iter |-> index + 1,
                   info |-> InfoFrom(<<"child", index>>, TRUE), hit |-> <<"child", index>>]
             ELSE RouterPhase(0, aNeighInfo)
    ELSE RouterPhase(aIterator, aNeighInfo)

\* The MTD GetNextNeighborInfo that advances the cursor only when it
\* returns the parent.
GetNextNeighborInfoMtd_AdvanceOnSuccess(aIterator, aNeighInfo) ==
    IF aIterator # OT_NEIGHBOR_INFO_ITERATOR_INIT
    THEN [error |-> OT_ERROR_NOT_FOUND, iter |-> aIterator, info |-> aNeighInfo, hit |-> nullptr]
    ELSE IF ~IsStateValid(parent)
    THEN [error |-> OT_ERROR_NOT_FOUND, iter |-> aIterator, info |-> aNeighInfo, hit |-> nullptr]
    ELSE [error |-> OT_ERROR_NONE, iter |-> aIterator + 1,
          info |-> InfoFrom(<<"parent">>, FALSE), hit |-> <<"parent">>]

\* NeighborTable::GetNextNeighborInfo, OPENTHREAD_MTD.
GetNextNeighborInfoMtd(aIterator, aNeighInfo) ==
    IF aIterator # OT_NEIGHBOR_INFO_ITERATOR_INIT
    THEN [error |-> OT_ERROR_NOT_FOUND, iter |-> aIterator, info |-> aNeighInfo, hit |-> nullptr]
    ELSE IF ~IsStateValid(parent)
    THEN [error |-> OT_ERROR_NOT_FOUND, iter |-> aIterator + 1, info |-> aNeighInfo, hit |-> nullptr]
    ELSE [error |-> OT_ERROR_NONE, iter |-> aIterator + 1,
          info |-> InfoFrom(<<"parent">>, FALSE), hit |-> <<"parent">>]

\* The call on the caller's cursor and out-parameter.
GetNextNeighborInfo ==
    LET r == IF ftd THEN GetNextNeighborInfoFtd(iter, info)
             ELSE GetNextNeighborInfoMtd(iter, info)
    IN  /\ iter' = r.iter
        /\ info' = r.info
        /\ yielded' = IF r.error = OT_ERROR_NONE THEN Append(yielded, r.hit) ELSE yielded
        /\ op' = [kind |-> "GetNextNeighborInfo", iter |-> iter, info |-> info,
                  mutated |-> mutated]
        /\ res' = r.error
        /\ UNCHANGED <<mutated, netifVars, tableVars>>

\* The caller sets its cursor to OT_NEIGHBOR_INFO_ITERATOR_INIT.
InitIterator ==
    /\ op.kind # "InitIterator"
    /\ iter' = OT_NEIGHBOR_INFO_ITERATOR_INIT
    /\ yielded' = <<>>
    /\ mutated' = FALSE
    /\ op' = [kind |-> "InitIterator"]
    /\ res' = "void"
    /\ UNCHANGED <<info, netifVars, tableVars>>

(***************************************************************************)
(* ThreadNetif::RouteLookup.                                               *)
(***************************************************************************)
NoHop == -1

\* NetworkData::Leader::RouteLookup: the next hop recorded for the
\* destination; rloc is left unset when there is no route.
LeaderRouteLookup(aSource, aDestination) ==
    IF routes[aDestination] = NoHop
    THEN [error |-> OT_ERROR_NO_ROUTE]
    ELSE [error |-> OT_ERROR_NONE, rloc |-> routes[aDestination]]

\* RouteLookup without the comparison with the device's own locator.
RouteLookup_NoSelfCheck(aSource, aDestination) ==
    LeaderRouteLookup(aSource, aDestination).error

RouteLookup(aSource, aDestination) ==
    LET r == LeaderRouteLookup(aSource, aDestination)
    IN  IF r.error # OT_ERROR_NONE THEN r.error          \* SuccessOrExit
        ELSE IF r.rloc = rloc16 THEN OT_ERROR_NO_ROUTE
        ELSE OT_ERROR_NONE

(***************************************************************************)
(* Values the calls are tried on.                                          *)
(***************************************************************************)
\* Extended addresses 0000:0000:0000:000k.
ExtAddr(k) == <<0, 0, 0, k>>

\* Mle::Rloc16FromRouterId.
Rloc16FromRouterId(id) == id * 1024

\* The link-local address of an extended address: fe80::/64 and the IID.
LinkLocalOf(e) == MakeIp6(<<65152, 0, 0, 0>>, ToggleLocal(e))

\* The routing-locator address of a short address.
RlocAddressOf(short) == MakeIp6(MeshLocalPrefix, <<0, 255, 65024, short>>)

\* A mesh-local endpoint address, a global address, multicast addresses.
MeshLocalEid   == MakeIp6(MeshLocalPrefix, <<4660, 0, 0, 1>>)
GlobalAddr     == MakeIp6(<<8193, 3512, 0, 0>>, <<0, 0, 0, 1>>)
LinkLocalAllNodes  == <<65282, 0, 0, 0, 0, 0, 0, 1>>
RealmLocalAllNodes == <<65283, 0, 0, 0, 0, 0, 0, 1>>
SiteLocalMulticast == <<65285, 0, 0, 0, 0, 0, 0, 2>>
Unspecified    == <<0, 0, 0, 0, 0, 0, 0, 0>>

\* Addresses offered to the TMF filter as destination and source.
TmfAddresses ==
    {LinkLocalOf(ExtAddr(1)), LinkLocalOf(ExtAddr(2)), RlocAddressOf(1024), MeshLocalEid,
     GlobalAddr, LinkLocalAllNodes, RealmLocalAllNodes, SiteLocalMulticast, Unspecified}

\* ThreadNetif::TmfFilter called by the CoAP transport on an inbound message.
CallTmfFilter ==
    \E aMessage \in 1 .. MaxContent, sock \in TmfAddresses, peer \in TmfAddresses :
        /\ op' = [kind |-> "TmfFilter", message |-> aMessage,
                  info |-> [sock |-> sock, peer |-> peer]]
        /\ res' = TmfFilter(aMessage, [sock |-> sock, peer |-> peer])
        /\ UNCHANGED <<netifVars, tableVars, iterVars>>

\* Destinations and next hops of the route table.
RouteDestinations == {GlobalAddr, MeshLocalEid, RlocAddressOf(1024)}
RouteSources == {MeshLocalEid, LinkLocalOf(ExtAddr(1))}
NextHops == {NoHop, 0, 1024, 1025}

CallRouteLookup ==
    \E aSource \in RouteSources, aDestination \in RouteDestinations :
        /\ op' = [kind |-> "RouteLookup", source |-> aSource, destination |-> aDestination]
        /\ res' = RouteLookup(aSource, aDestination)
        /\ UNCHANGED <<netifVars, tableVars, iterVars>>

\* The network data leader learns or drops a route.
SetRoute ==
    \E d \in RouteDestinations, h \in NextHops :
        /\ routes[d] # h
        /\ routes' = [routes EXCEPT ![d] = h]
        /\ op' = [kind |-> "env"]
        /\ res' = "void"
        /\ UNCHANGED <<netifVars, ftd, role, rloc16, parent, parentCandidate,
                       children, routers, iterVars>>

(***************************************************************************)
(* Initial values of the parts a specification leaves alone.               *)
(***************************************************************************)
DefaultConfig == [channelMonitor |-> TRUE, dnsClient |-> TRUE,
                  sntpClient |-> TRUE, dtls |-> TRUE]

InvalidNeighbor == [ext |-> ExtAddr(1), rloc16 |-> kShortAddrInvalid,
                    state |-> "Invalid", ip6 |-> {}]

NetifConstructed ==
    /\ mIsUp = FALSE          \* mIsUp(false)
    /\ sub = SubInit
    /\ steps = <<>>
    /\ signals = 0
    /\ nCalls = 0

NetifQuiet == NetifConstructed /\ cfg = DefaultConfig

TablesQuiet ==
    /\ ftd = TRUE
    /\ role = "Detached"
    /\ rloc16 = kShortAddrInvalid
    /\ parent = InvalidNeighbor
    /\ parentCandidate = InvalidNeighbor
    /\ children = [i \in ChildIndexes |-> InvalidNeighbor]
    /\ routers = [r \in RouterIds |-> NoRouter]
    /\ routes = [d \in RouteDestinations |-> NoHop]

IterQuiet ==
    /\ iter = OT_NEIGHBOR_INFO_ITERATOR_INIT
    /\ info = NoInfo
    /\ yielded = <<>>
    /\ mutated = FALSE

NoCall == op = NoOp /\ res = "void"

(***************************************************************************)
(* Specification of the interface lifecycle.                               *)
(***************************************************************************)
Init == NetifConstructed /\ cfg \in Configs /\ TablesQuiet /\ IterQuiet /\ NoCall

Next ==
    \/ Up
    \/ Down
    \/ AddExternalUnicastAddress
    \/ SubscribeExternalMulticast
    \/ SubscribeAllRoutersMulticast
    \/ CoapSecureStart
    \/ MacDisable

Spec == Init /\ [][Next]_vars

(***************************************************************************)
(* Specification of the TMF filter.                                        *)
(***************************************************************************)
InitTmf == NetifQuiet /\ TablesQuiet /\ IterQuiet /\ NoCall

NextTmf == CallTmfFilter

SpecTmf == InitTmf /\ [][NextTmf]_vars

(***************************************************************************)
(* Specification of the route lookup.                                      *)
(***************************************************************************)
InitRoute ==
    /\ NetifQuiet /\ IterQuiet /\ NoCall
    /\ ftd = TRUE
    /\ \E r \in {"Router", "Child"} :
          /\ role = r
          /\ rloc16 = IF r = "Router" THEN 1024 ELSE 1025
    /\ parent = InvalidNeighbor
    /\ parentCandidate = InvalidNeighbor
    /\ children = [i \in ChildIndexes |-> InvalidNeighbor]
    /\ routers = [r \in RouterIds |-> NoRouter]
    /\ routes = [d \in RouteDestinations |-> NoHop]

NextRoute == CallRouteLookup \/ SetRoute

SpecRoute == InitRoute /\ [][NextRoute]_vars

(***************************************************************************)
(* Specification of the neighbor lookups: the tables hold any content the  *)
(* MLE state machine can leave in them, then lookups are made.             *)
(***************************************************************************)
Roles == {"Detached", "Child", "Router", "Leader"}

\* Addresses a child registered besides its link-local and locator addresses.
Registered == {MeshLocalEid, RlocAddressOf(2048), LinkLocalOf(ExtAddr(3))}

Nbr(e, short, st, addrs) == [ext |-> ExtAddr(e), rloc16 |-> short, state |-> st, ip6 |-> addrs]

\* The parent is router 1.
ParentOptions ==
    {Nbr(1, 1024, "Invalid", {}), Nbr(1, 1024, "Valid", {}), Nbr(2, 1024, "Restoring", {})}

\* The parent candidate is router 0, or has no short address yet.
CandidateOptions ==
    {Nbr(1, kShortAddrInvalid, "Invalid", {}), Nbr(2, 0, "Valid", {}),
     Nbr(2, kShortAddrInvalid, "Valid", {})}

\* The child at index i has child id i + 1 under router 0.
ChildOptions(i) ==
    {Nbr(1, i + 1, "Invalid", {}), Nbr(1, i + 1, "Restoring", {}),
     Nbr(1, i + 1, "Valid", {}), Nbr(2, i + 1, "Valid", Registered),
     Nbr(2, kShortAddrBroadcast, "Valid", {})}

\* The router allocated under id r has short address Rloc16FromRouterId(r).
RouterOptions(r) ==
    {NoRouter, Nbr(1, Rloc16FromRouterId(r), "Invalid", {}),
     Nbr(2, Rloc16FromRouterId(r), "Valid", {})}

\* No two entries of a table in use have the same extended address.
DistinctExt(t, D) ==
    \A i \in D, j \in D :
        (i # j /\ t[i] # NoRouter /\ t[j] # NoRouter
           /\ t[i].state # "Invalid" /\ t[j].state # "Invalid")
        => t[i].ext # t[j].ext

ChildTables ==
    {t \in [ChildIndexes -> UNION {ChildOptions(i) : i \in ChildIndexes}] :
        /\ \A i \in ChildIndexes : t[i] \in ChildOptions(i)
        /\ DistinctExt(t, ChildIndexes)}

RouterTables ==
    {t \in [RouterIds -> UNION {RouterOptions(r) : r \in RouterIds}] :
        /\ \A r \in RouterIds : t[r] \in RouterOptions(r)
        /\ DistinctExt(t, RouterIds)}

EmptyChildTable == [i \in ChildIndexes |-> Nbr(1, i + 1, "Invalid", {})]
EmptyRouterTable == [r \in RouterIds |-> NoRouter]

\* The device's own locator in a role.
OwnRloc16(r) ==
    CASE r \in {"Router", "Leader"} -> 0
      [] r = "Child" -> 1025
      [] OTHER -> kShortAddrInvalid

\* The addresses the lookups are called with.
ShortQueries == {0, 1, 2, 1024, 2048, kShortAddrInvalid, kShortAddrBroadcast}
ExtQueries == {ExtAddr(1), ExtAddr(2), ExtAddr(3)}
MacQueries == {MacShort(a) : a \in ShortQueries} \cup {MacExt(e) : e \in ExtQueries}
Ip6Queries == {LinkLocalOf(ExtAddr(1)), LinkLocalOf(ExtAddr(2)), LinkLocalOf(ExtAddr(3)),
               RlocAddressOf(1), RlocAddressOf(1024), RlocAddressOf(2048),
               MeshLocalEid, GlobalAddr}

Lookup(form, addr, result) ==
    /\ op' = [kind |-> "FindNeighbor", form |-> form, addr |-> addr]
    /\ res' = result
    /\ UNCHANGED <<netifVars, tableVars, iterVars>>

CallFindNeighborShort == \E a \in ShortQueries : Lookup("short", a, FindNeighborShort(a))
CallFindNeighborExt == \E a \in ExtQueries : Lookup("ext", a, FindNeighborExt(a))
CallFindNeighborMac == \E a \in MacQueries : Lookup("mac", a, FindNeighborMac(a))
CallFindNeighborIp6 == ftd /\ \E a \in Ip6Queries : Lookup("ip6", a, FindNeighborIp6(a))

InitFind ==
    /\ NetifQuiet /\ IterQuiet /\ NoCall
    /\ routes = [d \in RouteDestinations |-> NoHop]
    /\ ftd \in BOOLEAN
    /\ role \in IF ftd THEN Roles ELSE {"Detached", "Child"}
    /\ rloc16 = OwnRloc16(role)
    /\ parent \in ParentOptions
    /\ parentCandidate \in CandidateOptions
    /\ children \in IF ftd THEN ChildTables ELSE {EmptyChildTable}
    /\ routers \in IF ftd THEN RouterTables ELSE {EmptyRouterTable}

NextFind ==
    \/ CallFindNeighborShort
    \/ CallFindNeighborExt
    \/ CallFindNeighborMac
    \/ CallFindNeighborIp6

SpecFind == InitFind /\ [][NextFind]_vars

(***************************************************************************)
(* Specification of the neighbor enumeration: a caller pages through the   *)
(* tables with its cursor while the MLE state machine may change them.     *)
(***************************************************************************)
\* The child at index i and the router with id r, in a given state.
IterChild(i, st) == [ext |-> ExtAddr(16 + i), rloc16 |-> i + 1, state |-> st, ip6 |-> {}]
IterRouter(r, st) == [ext |-> ExtAddr(32 + r), rloc16 |-> Rloc16FromRouterId(r),
                      state |-> st, ip6 |-> {}]
IterParent(st) == [ext |-> ExtAddr(1), rloc16 |-> 1024, state |-> st, ip6 |-> {}]

IterChildStates == {"Invalid", "Restoring", "Valid"}
IterRouterOptions(r) == {NoRouter, IterRouter(r, "Invalid"), IterRouter(r, "Valid")}
IterParentStates == {"Invalid", "Valid"}

\* A change of the tables leaves the caller's cursor and out-info alone.
Mutation ==
    /\ mutated' = TRUE
    /\ UNCHANGED <<netifVars, ftd, role, rloc16, parentCandidate, routes,
                   iter, info, yielded, op, res>>

\* The MLE state machine moves a child to another state.
SetChildState ==
    /\ ftd
    /\ \E i \in ChildIndexes, st \in IterChildStates :
          /\ children[i].state # st
          /\ children' = [children EXCEPT ![i].state = st]
    /\ UNCHANGED <<parent, routers>>
    /\ Mutation

\* The router table allocates, releases or (in)validates a router.
SetRouter ==
    /\ ftd
    /\ \E r \in RouterIds : \E o \in IterRouterOptions(r) :
          /\ routers[r] # o
          /\ routers' = [routers EXCEPT ![r] = o]
    /\ UNCHANGED <<parent, children>>
    /\ Mutation

\* The MLE state machine attaches to, or loses, the parent.
SetParentState ==
    /\ \E st \in IterParentStates :
          /\ parent.state # st
          /\ parent' = [parent EXCEPT !.state = st]
    /\ UNCHANGED <<children, routers>>
    /\ Mutation

InitIter ==
    /\ NetifQuiet /\ IterQuiet /\ NoCall
    /\ routes = [d \in RouteDestinations |-> NoHop]
    /\ ftd \in BOOLEAN
    /\ role = IF ftd THEN "Router" ELSE "Child"
    /\ rloc16 = OwnRloc16(role)
    /\ parent \in {IterParent(st) : st \in IterParentStates}
    /\ parentCandidate = InvalidNeighbor
    /\ children \in IF ftd
                    THEN {[i \in ChildIndexes |-> IterChild(i, f[i])] :
                            f \in [ChildIndexes -> IterChildStates]}
                    ELSE {[i \in ChildIndexes |-> IterChild(i, "Invalid")]}
    /\ routers \in IF ftd
                   THEN {t \in [RouterIds -> UNION {IterRouterOptions(r) : r \in RouterIds}] :
                            \A r \in RouterIds : t[r] \in IterRouterOptions(r)}
                   ELSE {EmptyRouterTable}

NextIter ==
    \/ GetNextNeighborInfo
    \/ InitIterator
    \/ SetChildState
    \/ SetRouter
    \/ SetParentState

SpecIter == InitIter /\ [][NextIter]_vars

(***************************************************************************)
(* SpecFrame: every lookup and the enumeration called in any order on      *)
(* tables that nobody changes.                                             *)
(***************************************************************************)
\* NeighborTable::FindParent(const Mac::Address &).
FindParentMac(aMacAddress) ==
    FindParent(MacMatcher(aMacAddress, "kInStateValidOrRestoring"))

CallFindParent ==
    \E a \in MacQueries :
        /\ op' = [kind |-> "FindParent", form |-> "mac", addr |-> a]
        /\ res' = FindParentMac(a)
        /\ UNCHANGED <<netifVars, tableVars, iterVars>>

CallFindRxOnlyNeighborRouter ==
    /\ ftd
    /\ \E a \in MacQueries :
          /\ op' = [kind |-> "FindRxOnlyNeighborRouter", form |-> "mac", addr |-> a]
          /\ res' = FindRxOnlyNeighborRouter(a)
          /\ UNCHANGED <<netifVars, tableVars, iterVars>>

\* Child tables and router tables with nothing, or everything, valid.
FrameChildTables ==
    {EmptyChildTable, [i \in ChildIndexes |-> IterChild(i, "Valid")]}

FrameRouterTables ==
    {EmptyRouterTable, [r \in RouterIds |-> IterRouter(r, "Valid")]}

InitFrame ==
    /\ NetifQuiet /\ IterQuiet /\ NoCall
    /\ routes = [d \in RouteDestinations |-> NoHop]
    /\ ftd \in BOOLEAN
    /\ role \in IF ftd THEN {"Child", "Router"} ELSE {"Child"}
    /\ rloc16 = OwnRloc16(role)
    /\ parent \in ParentOptions
    /\ parentCandidate = InvalidNeighbor
    /\ children \in IF ftd THEN FrameChildTables ELSE {EmptyChildTable}
    /\ routers \in IF ftd THEN FrameRouterTables ELSE {EmptyRouterTable}

NextFrame ==
    \/ CallFindParent
    \/ CallFindNeighborShort
    \/ CallFindNeighborExt
    \/ CallFindNeighborMac
    \/ CallFindNeighborIp6
    \/ CallFindRxOnlyNeighborRouter
    \/ GetNextNeighborInfo
    \/ InitIterator

SpecFrame == InitFrame /\ [][NextFrame]_vars

(***************************************************************************)
(* Properties of the TMF filter (checked under SpecTmf).                   *)
(***************************************************************************)
\* The class of an address, as the filter tells addresses apart.
AddressClass(a) ==
    CASE IsMeshLocalAddress(a) -> "MeshLocal"
      [] IsLinkLocal(a) -> "LinkLocal"
      [] IsLinkLocalMulticast(a) -> "LinkLocalMulticast"
      [] IsRealmLocalMulticast(a) -> "RealmLocalMulticast"
      [] OTHER -> "Other"

TmfCalled == op.kind = "TmfFilter"
DstClass == AddressClass(op.info.sock)
SrcClass == AddressClass(op.info.peer)

TmfTruthTable ==
    {<<"MeshLocal", "MeshLocal", OT_ERROR_NONE>>,
     <<"LinkLocalMulticast", "MeshLocal", OT_ERROR_NONE>>,
     <<"RealmLocalMulticast", "MeshLocal", OT_ERROR_NONE>>,
     <<"LinkLocal", "LinkLocal", OT_ERROR_NONE>>,
     <<"MeshLocal", "LinkLocal", OT_ERROR_NOT_TMF>>,
     <<"Other", "MeshLocal", OT_ERROR_NOT_TMF>>}

\* C2: on each of the six rows of the truth table (the "Other" destination
\* being the global unicast address) the filter returns the row's result,
\* and the result is the same for every message content and for every
\* envelope whose destination and source have the same classes.
C2_TmfTruthTable ==
    TmfCalled =>
        /\ \A row \in TmfTruthTable :
              (DstClass = row[1] /\ SrcClass = row[2]
                 /\ (row[1] = "Other" => op.info.sock = GlobalAddr))
              => res = row[3]
        /\ \A m \in 1 .. MaxContent, sock \in TmfAddresses, peer \in TmfAddresses :
              (AddressClass(sock) = DstClass /\ AddressClass(peer) = SrcClass)
              => TmfFilter(m, [sock |-> sock, peer |-> peer]) = res

\* C2 witness: the global-unicast destination with a mesh-local source was denied.
C2_Witness ==
    /\ TmfCalled
    /\ op.info.sock = GlobalAddr
    /\ SrcClass = "MeshLocal"
    /\ res = OT_ERROR_NOT_TMF

(***************************************************************************)
(* Properties of the route lookup (checked under SpecRoute).               *)
(***************************************************************************)
\* C8: when the network data route computation succeeds with a next hop
\* equal to the device's own locator, RouteLookup returns NoRoute, for
\* every source and destination.
C8_SelfLoopGuard ==
    (/\ op.kind = "RouteLookup"
     /\ LeaderRouteLookup(op.source, op.destination).error = OT_ERROR_NONE
     /\ LeaderRouteLookup(op.source, op.destination).rloc = rloc16)
    => res = OT_ERROR_NO_ROUTE

\* C8 witness: a lookup whose destination has a route through the device itself.
C8_Witness ==
    /\ op.kind = "RouteLookup"
    /\ routes[op.destination] = rloc16
    /\ res = OT_ERROR_NO_ROUTE

(***************************************************************************)
(* Properties of the interface lifecycle (checked under Spec).             *)
(***************************************************************************)
\* C9: an Up call while the interface is Up, and a Down call while it is
\* Down, leaves mIsUp, every subsystem and the number of signalled events
\* unchanged and calls no subsystem.
C9_Idempotent ==
    [][(/\ nCalls' = nCalls + 1
        /\ \/ op'.kind = "Up" /\ mIsUp
           \/ op'.kind = "Down" /\ ~mIsUp)
       => (/\ mIsUp' = mIsUp
           /\ sub' = sub
           /\ signals' = signals
           /\ steps' = <<>>)]_vars

\* C9 witness: an Up call was made on an interface that was already Up.
C9_Witness ==
    /\ op.kind = "Up"
    /\ op.wasUp
    /\ mIsUp
    /\ steps = <<>>
    /\ signals = 1

(***************************************************************************)
(* Properties of the neighbor lookups (checked under SpecFind).            *)
(***************************************************************************)
FindCalled == op.kind = "FindNeighbor"

\* The references of the stored peers.
StoredRefs ==
    {<<"parent">>, <<"parentCandidate">>}
        \cup {<<"child", i>> : i \in ChildIndexes}
        \cup {<<"router", r>> : r \in {x \in RouterIds : routers[x] # NoRouter}}

IsSentinel(short) == short \in {kShortAddrBroadcast, kShortAddrInvalid}

\* The queried address is an address of the peer the reference names.
HoldsAddress(ref, form, addr) ==
    LET n == Deref(ref)
    IN  CASE form = "short" -> n.rloc16 = addr
          [] form = "ext" -> n.ext = addr
          [] form = "mac" -> IF addr.type = "short" THEN n.rloc16 = addr.short
                             ELSE n.ext = addr.ext
          [] form = "ip6" -> \/ addr = LinkLocalOf(n.ext)
                             \/ addr = RlocAddressOf(n.rloc16)
                             \/ addr \in n.ip6

\* The lookup of the queried form searches the store of the peer, and
\* resolves the form to the peer's address.
Covers(ref, form, addr) ==
    LET n == Deref(ref)
    IN  CASE form \in {"short", "ext", "mac"} ->
                /\ ref[1] \in {"child", "router"} => (ftd /\ IsRouterOrLeader)
                /\ form = "short" => ~IsSentinel(addr)
                /\ HoldsAddress(ref, form, addr)
          [] form = "ip6" ->
                /\ ref[1] \in {"child", "router"}
                /\ IF IsLinkLocal(addr) \/ IsRoutingLocator(addr)
                   THEN addr = LinkLocalOf(n.ext) \/ addr = RlocAddressOf(n.rloc16)
                   ELSE ref[1] = "child" /\ addr \in n.ip6

\* The place of a stored peer in the search order.
Rank(ref) ==
    CASE ref[1] = "child" -> ref[2]
      [] ref[1] = "router" -> MaxChildren + ref[2]
      [] ref[1] = "parent" -> MaxChildren + kMaxRouterId + 1
      [] ref[1] = "parentCandidate" -> MaxChildren + kMaxRouterId + 2

\* C3 as stated: for every stored peer P in state Valid and every address
\* form of P (short, extended, generic MAC, IPv6), FindNeighbor called with
\* that form returns P, in every role and for every table content.
C3_AsStated ==
    FindCalled =>
        \A P \in StoredRefs :
            (IsStateValid(Deref(P)) /\ HoldsAddress(P, op.form, op.addr)) => res = P

\* C3 amended: for every stored peer P in state Valid and every address
\* form of P, FindNeighbor called with that form returns P, provided that
\* the form is not the short address BROADCAST or INVALID; that for a
\* short, extended or generic MAC form P is the parent or parent candidate,
\* or the device is router or leader; that for an IPv6 form P is a child or
\* router and the form is P's link-local address, P's routing-locator
\* address or an address P registered that is neither link-local nor a
\* routing locator; and that no valid-or-restoring peer searched before P
\* (children by index, routers by id, parent, parent candidate) has the
\* same address.
C3_Completeness ==
    FindCalled =>
        \A P \in StoredRefs :
            (/\ IsStateValid(Deref(P))
             /\ Covers(P, op.form, op.addr)
             /\ ~\E Q \in StoredRefs :
                    /\ Rank(Q) < Rank(P)
                    /\ IsStateValidOrRestoring(Deref(Q))
                    /\ Covers(Q, op.form, op.addr))
            => res = P

\* C3 witness: on a router, a valid router was found by its extended
\* address while a parent slot holds the same extended address.
C3_Witness ==
    /\ FindCalled
    /\ op.form = "ext"
    /\ role = "Router"
    /\ res = <<"router", 1>>
    /\ IsStateValid(routers[1])
    /\ routers[1].ext = op.addr
    /\ parentCandidate.ext = op.addr
    /\ IsStateValid(parentCandidate)

\* C4: a peer FindNeighbor returns is a stored peer in a valid-or-restoring
\* state and has the queried address; when no stored peer has the queried
\* address, FindNeighbor returns nullptr.
C4_Soundness ==
    FindCalled =>
        /\ res # nullptr =>
              /\ res \in StoredRefs
              /\ IsStateValidOrRestoring(Deref(res))
              /\ HoldsAddress(res, op.form, op.addr)
        /\ (\A P \in StoredRefs : ~HoldsAddress(P, op.form, op.addr)) => res = nullptr

\* C4 witness: a lookup by extended address returned a peer in state
\* Restoring although an earlier-stored peer in state Invalid has the same
\* extended address.
C4_Witness ==
    /\ FindCalled
    /\ op.form = "ext"
    /\ res = <<"child", 1>>
    /\ children[1].state = "Restoring"
    /\ children[0].state = "Invalid"
    /\ children[0].ext = op.addr

\* C5: FindNeighbor called with the short address BROADCAST or INVALID
\* returns nullptr, whatever the tables hold and whatever the role.
C5_SentinelsResolveToNone ==
    (FindCalled /\ op.form = "short" /\ IsSentinel(op.addr)) => res = nullptr

\* C5 witness: BROADCAST was looked up on a router one of whose valid
\* children carries the short address BROADCAST.
C5_Witness ==
    /\ FindCalled
    /\ op.form = "short"
    /\ op.addr = kShortAddrBroadcast
    /\ ftd /\ IsRouterOrLeader
    /\ \E i \in ChildIndexes :
          IsStateValid(children[i]) /\ children[i].rloc16 = kShortAddrBroadcast
    /\ res = nullptr

\* A valid-or-restoring child or router has the MAC address derived from
\* the link-local or routing-locator address a.
DerivedAddressMatch(a) ==
    \E P \in StoredRefs :
        /\ P[1] \in {"child", "router"}
        /\ IsStateValidOrRestoring(Deref(P))
        /\ IF IsRoutingLocator(a) THEN Deref(P).rloc16 = GetLocator(GetIid(a))
           ELSE Deref(P).ext = ToggleLocal(GetIid(a))

\* C10: FindNeighbor given a link-local or routing-locator IPv6 address
\* whose derived MAC address no valid-or-restoring child or router has
\* returns nullptr, also when a child registered that very IPv6 address.
C10_TierSkip ==
    (/\ FindCalled
     /\ op.form = "ip6"
     /\ IsLinkLocal(op.addr) \/ IsRoutingLocator(op.addr)
     /\ ~DerivedAddressMatch(op.addr))
    => res = nullptr

\* C10 witness: the routing-locator address looked up is registered by a
\* valid child, no child or router has its locator, and the result is nullptr.
C10_Witness ==
    /\ FindCalled
    /\ op.form = "ip6"
    /\ IsRoutingLocator(op.addr)
    /\ ~DerivedAddressMatch(op.addr)
    /\ \E i \in ChildIndexes :
          IsStateValid(children[i]) /\ HasIp6Address(children[i], op.addr)
    /\ res = nullptr

(***************************************************************************)
(* Properties of the neighbor enumeration (checked under SpecIter).        *)
(***************************************************************************)
NextCalled == op.kind = "GetNextNeighborInfo"

RECURSIVE ValidChildrenFrom(_)
ValidChildrenFrom(i) ==
    IF i \notin ChildIndexes THEN <<>>
    ELSE (IF IsStateValid(children[i]) THEN << <<"child", i>> >> ELSE <<>>)
            \o ValidChildrenFrom(i + 1)

RECURSIVE ValidRoutersFrom(_)
ValidRoutersFrom(r) ==
    IF r \notin RouterIds THEN <<>>
    ELSE (IF routers[r] # NoRouter /\ IsStateValid(routers[r])
          THEN << <<"router", r>> >> ELSE <<>>)
            \o ValidRoutersFrom(r + 1)

\* The valid children by index, then the valid routers by id.
ExpectedEnumeration == ValidChildrenFrom(0) \o ValidRoutersFrom(0)

IsPrefix(a, b) == Len(a) <= Len(b) /\ \A k \in 1 .. Len(a) : a[k] = b[k]

\* C6: on an FTD build, while the tables are unchanged since the cursor
\* was initialised, the entries returned so far are a prefix of "the valid
\* children by index, then the valid routers by id", and are all of it
\* once a call has returned not-found; so every valid entry is returned
\* once, in order, nothing else is, and no call after the not-found
\* returns an entry.
C6_EnumerationOrder ==
    (ftd /\ ~mutated) =>
        /\ IsPrefix(yielded, ExpectedEnumeration)
        /\ (NextCalled /\ res = OT_ERROR_NOT_FOUND) => yielded = ExpectedEnumeration

\* C6 witness: an enumeration over unchanged tables ended with not-found
\* after returning a child and a router, having skipped a restoring child
\* and an allocated router that is not valid.
C6_Witness ==
    /\ ftd /\ ~mutated
    /\ NextCalled /\ res = OT_ERROR_NOT_FOUND
    /\ yielded = << <<"child", 1>>, <<"router", 1>> >>
    /\ children[0].state = "Restoring"
    /\ routers[0] # NoRouter

\* C7: once GetNextNeighborInfo has returned not-found, every later call
\* on that cursor returns not-found and leaves the cursor as it is, also
\* when the tables changed in between.
C7_FixedPoint ==
    [][(/\ NextCalled
        /\ res = OT_ERROR_NOT_FOUND
        /\ op'.kind = "GetNextNeighborInfo")
       => (res' = OT_ERROR_NOT_FOUND /\ iter' = iter)]_vars

\* C7 witness: a call made after the tables changed found the cursor at
\* its terminal value, returned not-found and left the cursor there, while
\* a valid child and a valid router have not been returned.
C7_Witness ==
    /\ ftd
    /\ NextCalled
    /\ op.mutated
    /\ op.iter = iter
    /\ res = OT_ERROR_NOT_FOUND
    /\ \E i \in ChildIndexes :
          IsStateValid(children[i]) /\ \A k \in 1 .. Len(yielded) : yielded[k] # <<"child", i>>
    /\ \E r \in RouterIds :
          /\ routers[r] # NoRouter
          /\ IsStateValid(routers[r])
          /\ \A k \in 1 .. Len(yielded) : yielded[k] # <<"router", r>>

(***************************************************************************)
(* Further properties of the interface lifecycle (checked under Spec).     *)
(***************************************************************************)
\* C11: every step signals exactly one state-changed event when it changes
\* mIsUp and none otherwise; so a call that changes the Up/Down state
\* signals once, a no-op call signals nothing, and the number of events
\* signalled equals the number of state transitions.
C11_OneSignalPerTransition ==
    [][signals' = signals + (IF mIsUp' # mIsUp THEN 1 ELSE 0)]_vars

\* C11 witness: after Up, Up, Down, Down two events have been signalled.
C11_Witness ==
    /\ nCalls = 4
    /\ signals = 2
    /\ ~mIsUp
    /\ op.kind = "Down"
    /\ ~op.wasUp

\* The names of the steps logged, in order.
StepNames == [k \in 1 .. Len(steps) |-> steps[k][1]]

\* The position of the assignment to mIsUp in the step log (0 when absent).
MarkPosition ==
    IF \E k \in 1 .. Len(steps) : steps[k][1] = "mIsUp"
    THEN CHOOSE k \in 1 .. Len(steps) : steps[k][1] = "mIsUp"
    ELSE 0

\* The steps of a build: those of the list whose #if switch is on.
Configured(list) ==
    LET Built(e) == e[2] = "always" \/ cfg[e[2]]
        kept == SelectSeq(list, Built)
    IN  [k \in 1 .. Len(kept) |-> kept[k][1]]

UpOrder ==
    Configured(<< <<"Mac.SetEnabled", "always">>,
                  <<"ChannelMonitor.Start", "channelMonitor">>,
                  <<"MeshForwarder.Start", "always">>,
                  <<"mIsUp", "always">>,
                  <<"SubscribeAllNodesMulticast", "always">>,
                  <<"MleRouter.Enable", "always">>,
                  <<"Coap.Start", "always">>,
                  <<"Dns.Client.Start", "dnsClient">>,
                  <<"Sntp.Client.Start", "sntpClient">>,
                  <<"Notifier.Signal", "always">> >>)

DownOrder ==
    Configured(<< <<"Dns.Client.Stop", "dnsClient">>,
                  <<"Sntp.Client.Stop", "sntpClient">>,
                  <<"CoapSecure.Stop", "dtls">>,
                  <<"Coap.Stop", "always">>,
                  <<"MleRouter.Disable", "always">>,
                  <<"RemoveAllExternalUnicastAddresses", "always">>,
                  <<"UnsubscribeAllExternalMulticastAddresses", "always">>,
                  <<"UnsubscribeAllRoutersMulticast", "always">>,
                  <<"UnsubscribeAllNodesMulticast", "always">>,
                  <<"mIsUp", "always">>,
                  <<"MeshForwarder.Stop", "always">>,
                  <<"ChannelMonitor.Stop", "channelMonitor">>,
                  <<"Notifier.Signal", "always">> >>)

\* C12: an Up call on a Down interface runs radio enable, monitoring
\* start, forwarding start, mark Up, all-nodes subscription, MLE enable,
\* management transport start, auxiliary client starts, event signal, in
\* that order; the steps before the mark see the interface Down and every
\* step after it (subscription, MLE, transport, clients, signal) sees it Up.
C12_UpOrder ==
    (op.kind = "Up" /\ ~op.wasUp) =>
        /\ StepNames = UpOrder
        /\ \A k \in 1 .. Len(steps) :
              steps[k][1] # "mIsUp" => (steps[k][2] <=> k > MarkPosition)
        /\ steps[MarkPosition] = <<"mIsUp", TRUE>>

\* C12 witness: an Up call took effect on a build with every optional
\* subsystem and MLE was enabled with the interface already Up.
C12_Witness ==
    /\ op.kind = "Up" /\ ~op.wasUp
    /\ cfg = DefaultConfig
    /\ Len(steps) = 10
    /\ steps[6] = <<"MleRouter.Enable", TRUE>>
    /\ steps[3] = <<"MeshForwarder.Start", FALSE>>

\* C13: a Down call on an Up interface runs client stops, transport
\* stops, MLE disable, external unicast removal, external multicast
\* unsubscription, router-scope and all-nodes unsubscription, mark Down,
\* forwarding stop, monitoring stop, event signal, in that order; every
\* step before the mark sees the interface Up, and the signal comes after
\* the mark and after the forwarding stop and sees the interface Down.
C13_DownOrder ==
    (op.kind = "Down" /\ op.wasUp) =>
        /\ StepNames = DownOrder
        /\ \A k \in 1 .. Len(steps) :
              steps[k][1] # "mIsUp" => (steps[k][2] <=> k < MarkPosition)
        /\ steps[MarkPosition] = <<"mIsUp", FALSE>>
        /\ steps[Len(steps)] = <<"Notifier.Signal", FALSE>>
        /\ \E k \in MarkPosition + 1 .. Len(steps) - 1 : steps[k][1] = "MeshForwarder.Stop"

\* C13 witness: a Down call took effect on a build with every optional
\* subsystem; the all-nodes unsubscription ran with the interface Up.
C13_Witness ==
    /\ op.kind = "Down" /\ op.wasUp
    /\ cfg = DefaultConfig
    /\ Len(steps) = 13
    /\ steps[9] = <<"UnsubscribeAllNodesMulticast", TRUE>>
    /\ steps[13] = <<"Notifier.Signal", FALSE>>

\* C20: between calls, the forwarding engine is started, MLE is enabled,
\* the management transport is started and the all-nodes group is
\* subscribed exactly when the interface is Up, and every change of the
\* interface state is made by Up (to Up) or by Down (to Down), the
\* interface starting Down.
C20_SubsystemsFollowState ==
    /\ [](/\ sub.meshForwarder = mIsUp
          /\ sub.mle = mIsUp
          /\ sub.coap = mIsUp
          /\ sub.allNodes = mIsUp
          /\ nCalls = 0 => ~mIsUp)
    /\ [][mIsUp' # mIsUp =>
            /\ nCalls' = nCalls + 1
            /\ op'.kind = IF mIsUp' THEN "Up" ELSE "Down"]_vars

\* C20 witness: after Up, Down, Up the interface is Up with forwarding,
\* MLE, transport and all-nodes subscription running.
C20_Witness ==
    /\ nCalls = 3
    /\ signals = 3
    /\ op.kind = "Up"
    /\ mIsUp
    /\ sub.meshForwarder /\ sub.mle /\ sub.coap /\ sub.allNodes

(***************************************************************************)
(* Further properties of the neighbor lookups (checked under SpecFind).    *)
(***************************************************************************)
\* The stored valid-or-restoring peers of kind k that hold the address.
Holders(k, form, addr) ==
    {P \in StoredRefs :
        /\ P[1] = k
        /\ IsStateValidOrRestoring(Deref(P))
        /\ HoldsAddress(P, form, addr)}

FirstOf(refs) == CHOOSE P \in refs : \A Q \in refs : Rank(P) <= Rank(Q)

\* C14: for the short, extended and generic MAC forms, on a router or
\* leader a child holding the address is returned before a router holding
\* it and a parent slot is returned only when no child and no router holds
\* it; in any other role only the parent slots are searched, the parent
\* before the parent candidate, and no child or router is ever returned.
\* (The short form called with BROADCAST or INVALID searches nothing.)
C14_Priority ==
    (FindCalled /\ op.form \in {"short", "ext", "mac"}) =>
        LET inChild == Holders("child", op.form, op.addr)
            inRouter == Holders("router", op.form, op.addr)
            inParent == Holders("parent", op.form, op.addr)
                            \cup Holders("parentCandidate", op.form, op.addr)
            searched == ~(op.form = "short" /\ IsSentinel(op.addr))
            fromParent == IF inParent = {} THEN nullptr ELSE FirstOf(inParent)
        IN  /\ res = <<"parentCandidate">> => <<"parent">> \notin inParent
            /\ IF IsRouterOrLeader
               THEN /\ res[1] = "router" => inChild = {}
                    /\ res[1] \in {"parent", "parentCandidate"} =>
                          inChild = {} /\ inRouter = {}
                    /\ searched =>
                          res = IF inChild # {} THEN FirstOf(inChild)
                                ELSE IF inRouter # {} THEN FirstOf(inRouter)
                                ELSE fromParent
               ELSE /\ res[1] \notin {"child", "router"}
                    /\ searched => res = fromParent

\* C14 witness: on a router or leader a child, a router and the parent all
\* hold the queried extended address and the child was returned.
C14_Witness ==
    /\ FindCalled /\ op.form = "ext"
    /\ IsRouterOrLeader
    /\ Holders("child", "ext", op.addr) # {}
    /\ Holders("router", "ext", op.addr) # {}
    /\ Holders("parent", "ext", op.addr) # {}
    /\ res[1] = "child"

\* C17 as stated: FindNeighbor called with a generic MAC address holding
\* the short address S returns what FindNeighbor called with S returns,
\* for every S including BROADCAST and INVALID.
C17_AsStated ==
    (FindCalled /\ op.form = "mac" /\ op.addr.type = "short") =>
        res = FindNeighborShort(op.addr.short)

\* C17 amended: FindNeighbor called with a generic MAC address holding the
\* short address S returns what FindNeighbor called with S returns, for
\* every S other than BROADCAST and INVALID.
C17_MacShortAgree ==
    (FindCalled /\ op.form = "mac" /\ op.addr.type = "short"
        /\ ~IsSentinel(op.addr.short)) =>
        res = FindNeighborShort(op.addr.short)

\* C17 witness: a generic MAC address holding an ordinary short address
\* resolved to a router.
C17_Witness ==
    /\ FindCalled /\ op.form = "mac" /\ op.addr.type = "short"
    /\ ~IsSentinel(op.addr.short)
    /\ res[1] = "router"

\* The locator of a routing-locator address.
LocatorOf(aIp6Address) == GetLocator(GetIid(aIp6Address))

NextCallStep ==
    /\ op'.kind = "GetNextNeighborInfo"
    /\ UNCHANGED <<parent, children, routers>>

\* C15: on an MTD build a call with the initial cursor moves the cursor off
\* the initial value and returns the parent, with mIsChild false, exactly
\* when the parent is Valid; a call with any other cursor returns
\* not-found and leaves the cursor as it is, whatever the parent has
\* become since the first call.
C15_MtdSingleShot ==
    [][(~ftd /\ NextCallStep) =>
          IF iter = OT_NEIGHBOR_INFO_ITERATOR_INIT
          THEN /\ iter' # OT_NEIGHBOR_INFO_ITERATOR_INIT
               /\ res' = OT_ERROR_NONE <=> IsStateValid(parent)
               /\ res' = OT_ERROR_NONE =>
                     /\ info' = InfoFrom(<<"parent">>, FALSE)
                     /\ ~info'.mIsChild
                     /\ yielded' = Append(yielded, <<"parent">>)
               /\ res' # OT_ERROR_NONE =>
                     res' = OT_ERROR_NOT_FOUND /\ yielded' = yielded
          ELSE /\ res' = OT_ERROR_NOT_FOUND
               /\ iter' = iter
               /\ yielded' = yielded]_vars

\* C15 witness: on an MTD build the first call found the parent not Valid,
\* the parent then became Valid, and the second call returned not-found.
C15_Witness ==
    /\ ~ftd
    /\ NextCalled
    /\ op.iter # OT_NEIGHBOR_INFO_ITERATOR_INIT
    /\ op.mutated
    /\ IsStateValid(parent)
    /\ yielded = <<>>
    /\ res = OT_ERROR_NOT_FOUND

\* C19: on an FTD build, while the tables change between calls, every
\* successful call strictly advances the position (a larger child index in
\* the child phase, a larger router id in the router phase), a negative
\* cursor stays negative until the caller reinitializes it, and so the
\* peers returned since the initial cursor are strictly increasing in
\* enumeration order and at most MaxChildren + kMaxRouterId + 1 in number.
C19_Progress ==
    /\ [](ftd =>
            /\ Len(yielded) <= MaxChildren + kMaxRouterId + 1
            /\ \A j \in 1 .. Len(yielded), k \in 1 .. Len(yielded) :
                  j < k => Rank(yielded[j]) < Rank(yielded[k]))
    /\ [][(ftd /\ op'.kind # "InitIterator") =>
            /\ iter < 0 => iter' < 0
            /\ (NextCallStep /\ res' = OT_ERROR_NONE /\ yielded' # yielded) =>
                  IF iter' > 0
                  THEN iter >= 0 /\ iter' > iter /\ yielded'[Len(yielded')] = <<"child", iter' - 1>>
                  ELSE iter' < 0 /\ iter' < iter
                          /\ yielded'[Len(yielded')] = <<"router", -iter' - 1>>]_vars

\* C19 witness: with the tables changing between the calls, every child
\* index and every router id was returned once and the enumeration ended.
C19_Witness ==
    /\ ftd
    /\ NextCalled
    /\ op.mutated
    /\ Len(yielded) = MaxChildren + kMaxRouterId + 1
    /\ res = OT_ERROR_NOT_FOUND

(***************************************************************************)
(* The frame of the lookups and of the enumeration (checked under          *)
(* SpecFrame).                                                             *)
(***************************************************************************)
LookupKinds == {"FindParent", "FindNeighbor", "FindRxOnlyNeighborRouter"}

\* C16: a lookup (FindParent, FindNeighbor in every form,
\* FindRxOnlyNeighborRouter) leaves the parent slots, the child table, the
\* router table, the caller's cursor and out-info as they were, and the
\* same lookup made again returns the same result; GetNextNeighborInfo
\* changes nothing but the caller's cursor and, on success, the out-info,
\* which it sets to the peer returned, and on not-found it leaves the
\* out-info as it was.
C16_Frame ==
    [][/\ op'.kind \in LookupKinds =>
            /\ UNCHANGED <<netifVars, tableVars, iter, info>>
            /\ op' = op => res' = res
       /\ op'.kind = "GetNextNeighborInfo" =>
            /\ UNCHANGED <<netifVars, tableVars>>
            /\ res' # OT_ERROR_NONE => info' = info
            /\ res' = OT_ERROR_NONE =>
                  /\ Len(yielded') = Len(yielded) + 1
                  /\ info' = InfoFrom(yielded'[Len(yielded')],
                                      yielded'[Len(yielded')][1] = "child")
                  /\ iter' # iter]_vars

\* C16 witness: between two enumeration steps, with the cursor in the
\* child phase and the out-info holding a child, a lookup resolved an
\* address to a router.
C16_Witness ==
    /\ op.kind = "FindRxOnlyNeighborRouter"
    /\ res[1] = "router"
    /\ iter > 0
    /\ info.mIsChild
    /\ Len(yielded) > 0

====
